---- MODULE Spec2Model ----
(***************************************************************************)
(* Synapse formation between neurons (BioDynaMo agents):                   *)
(*   basic_neuron.h / MyNeuron.h : connection lists, FindParentNeuron,     *)
(*                                 hasSynapse, CreateSynapseBetweenNeurites*)
(*                                 and the CSV export                      *)
(*   synapse_op.h                : SynapseFormation (DendriticDetector,    *)
(*                                 Run), AddSynapseBehavior, synapse_op    *)
(* Agents are identified by their uid.  Null (0) is the null pointer.      *)
(***************************************************************************)
EXTENDS Integers, Sequences, FiniteSets, TLC

\* ------------------------------------------------------------------ bounds
\* Number of agents in the parent structures of the ownership walk.
NumOwnerAgents == 3
\* Number of threads of the engine's parallel agent dispatch.
NumThreads == 2
\* Number of basic_neuron agents in the simulated tissue.
NumNeurons == 2
\* Number of AddSynapse calls made before an export.
MaxSynapses == 3
\* Number of neighbors ForEachNeighbor reports to one DendriticDetector call.
MaxCands == 2
\* IncreaseStrength is called on connections whose strength is this close to 0.
StrengthCap == 1
\* Number of tree-element neighbors reported where ties of distance are studied.
MaxTieCands == 3
\* Number of neurons of the well-formed tissue of the whole run.
NumRepeatOwners == 2

\* ------------------------------------------------------------------- state
VARIABLES
  kind,              \* agent uid -> "neuron" | "neurite" | "soma" (dynamic type)
  mother,            \* NeuriteElement::GetMother().Get(): uid or Null
  state_,            \* basic_neuron::state_
  synapses_,         \* basic_neuron::synapses_ : sequence of Synapses records
  fpn_pc,            \* position of a FindParentNeuron call
  fpn_arg,           \* its argument
  fpn_neurite,       \* its local  neurite
  fpn_mother_neuron, \* its local  mother_neuron
  cs_last,           \* the last finished CreateSynapseBetweenNeurites call
  cs_pc,             \* per thread: position in CreateSynapseBetweenNeurites
  cs_call,           \* per thread: the locals of its call
  cs_heap,           \* whether a racing push_back has damaged the heap
  cs_torn,           \* the neurons whose synapses_ vector is left torn
  steps,             \* Scheduler::GetSimulatedSteps()
  phase,             \* where the scheduler is within the current step
  behaviors,         \* per agent: its SynapseFormation behaviors, in order
  next_beh,          \* per agent: how many of its behaviors ran in this step
  decided,           \* the steps at which some Run called DendriticDetector
  det_pc,            \* position of a DendriticDetector call
  det_tip,           \* its argument  agent
  det_cands,         \* the neighbors ForEachNeighbor reports, in order
  det_result,        \* what it returned
  file               \* connection_list.csv: whether written, and its data lines

worldVars == <<kind, mother, state_, synapses_>>
fpnVars   == <<fpn_pc, fpn_arg, fpn_neurite, fpn_mother_neuron>>
csVars    == <<cs_last, cs_pc, cs_call, cs_heap, cs_torn>>
runVars   == <<steps, phase, behaviors, next_beh, decided>>
detVars   == <<det_pc, det_tip, det_cands, det_result>>
expVars   == <<file>>
vars      == <<worldVars, fpnVars, csVars, runVars, detVars, expVars>>

Null == 0

\* enum States { alive, dead }
alive == 0
dead  == 1

Kinds == {"neuron", "neurite", "soma"}

\* dynamic_cast<basic_neuron*>(p): p when p is a basic_neuron, else nullptr
AsNeuron(p) == IF p # Null /\ kind[p] = "neuron" THEN p ELSE Null

\* dynamic_cast<NeuriteElement*>(p): p when p is a NeuriteElement, else nullptr
AsNeurite(p) == IF p # Null /\ kind[p] = "neurite" THEN p ELSE Null

\* ------------------------------------------------- FindParentNeuron (walk)
OwnerAgents == 1 .. NumOwnerAgents
Threads == 1 .. NumThreads

NoCall == [n1 |-> Null, n2 |-> Null, a |-> Null, b |-> Null, added |-> FALSE,
           valid |-> FALSE]
NoLocals == [neurite1 |-> Null, neurite2 |-> Null, neuronA |-> Null,
             neuronB |-> Null, distance |-> 0, strength |-> 0, time |-> 0,
             size |-> 0]

\* no FindParentNeuron call in progress
FpnIdle ==
  /\ fpn_pc = "idle"
  /\ fpn_arg = Null
  /\ fpn_neurite = Null
  /\ fpn_mother_neuron = Null

\* no CreateSynapseBetweenNeurites call started yet
CsIdle ==
  /\ cs_last = NoCall
  /\ cs_pc = [t \in Threads |-> "idle"]
  /\ cs_call = [t \in Threads |-> NoLocals]
  /\ cs_heap = "ok"
  /\ cs_torn = {}

\* the scheduler has not started
RunIdle ==
  /\ steps = 0
  /\ phase = "agents"
  /\ behaviors = [a \in DOMAIN kind |-> <<>>]
  /\ next_beh = [a \in DOMAIN kind |-> 0]
  /\ decided = {}

\* no DendriticDetector call made
DetIdle ==
  /\ det_pc = "idle"
  /\ det_tip = Null
  /\ det_cands = <<>>
  /\ det_result = Null

\* connection_list.csv not written
ExpIdle == file = [status |-> "none", lines |-> <<>>]

\* Parent structures handed to the walk: every neurite has a mother link
\* (possibly null, possibly malformed: a cycle); somas have none.
OwnerWorldOK(k, m) ==
  \A a \in OwnerAgents : k[a] # "neurite" => m[a] = Null

InitOwner ==
  /\ kind \in [OwnerAgents -> Kinds]
  /\ mother \in [OwnerAgents -> OwnerAgents \cup {Null}]
  /\ OwnerWorldOK(kind, mother)
  /\ state_ = [a \in OwnerAgents |-> alive]
  /\ synapses_ = [a \in OwnerAgents |-> <<>>]
  /\ FpnIdle
  /\ CsIdle
  /\ RunIdle
  /\ DetIdle
  /\ ExpIdle

\* basic_neuron* mother_neuron = nullptr;  (entry of FindParentNeuron)
FPNCall(neurite) ==
  /\ fpn_pc = "idle"
  /\ fpn_pc' = "loop"
  /\ fpn_arg' = neurite
  /\ fpn_neurite' = neurite
  /\ fpn_mother_neuron' = Null
  /\ UNCHANGED <<worldVars, csVars, runVars, detVars, expVars>>

\* the loop condition  while (neurite && !mother_neuron)
FPNCond(neurite, mother_neuron) == neurite # Null /\ mother_neuron = Null

\* mother_neuron = dynamic_cast<basic_neuron*>(mother)
FPNNextNeuron(m) == AsNeuron(m)

\* faulty variant: the walk looks at the direct mother only and never climbs
FPNNextNeuriteNoClimb(m) == Null

\* neurite = dynamic_cast<NeuriteElement*>(mother)
FPNNextNeurite(m) == AsNeurite(m)

\* while (neurite && !mother_neuron): the condition holds, the body is entered
FPNTest ==
  /\ fpn_pc = "loop"
  /\ FPNCond(fpn_neurite, fpn_mother_neuron)
  /\ fpn_pc' = "body"
  /\ UNCHANGED <<fpn_arg, fpn_neurite, fpn_mother_neuron, worldVars, csVars, runVars, detVars, expVars>>

\* one execution of the loop body, back to the condition
FPNLoop ==
  /\ fpn_pc = "body"
  /\ LET m == mother[fpn_neurite] IN
       /\ fpn_mother_neuron' = FPNNextNeuron(m)
       /\ fpn_neurite' = FPNNextNeurite(m)
  /\ fpn_pc' = "loop"
  /\ UNCHANGED <<fpn_arg, worldVars, csVars, runVars, detVars, expVars>>

\* return mother_neuron;
FPNReturn ==
  /\ fpn_pc = "loop"
  /\ ~FPNCond(fpn_neurite, fpn_mother_neuron)
  /\ fpn_pc' = "done"
  /\ UNCHANGED <<fpn_arg, fpn_neurite, fpn_mother_neuron, worldVars, csVars, runVars, detVars, expVars>>

\* the caller takes the result; the next call may start
FPNNext ==
  /\ fpn_pc = "done"
  /\ fpn_pc' = "idle"
  /\ UNCHANGED <<fpn_arg, fpn_neurite, fpn_mother_neuron, worldVars, csVars, runVars, detVars, expVars>>

NextOwner ==
  \/ \E e \in {a \in OwnerAgents : kind[a] = "neurite"} \cup {Null} : FPNCall(e)
  \/ FPNTest
  \/ FPNLoop
  \/ FPNReturn
  \/ FPNNext

SpecOwner == InitOwner /\ [][NextOwner]_vars

\* The k-th ancestor of e along the mother links (Null once the chain left
\* the tree elements).
RECURSIVE Anc(_, _)
Anc(e, k) ==
  IF k = 0 THEN e
  ELSE LET p == Anc(e, k - 1) IN
         IF AsNeurite(p) = Null THEN Null ELSE mother[p]

\* e starts a chain of n >= 1 tree elements whose last mother is the root r
ChainEndsInRoot(e, r) ==
  \E n \in 1 .. Cardinality(DOMAIN kind) :
    /\ \A j \in 0 .. (n - 1) : AsNeurite(Anc(e, j)) # Null
    /\ Anc(e, n) = r
    /\ AsNeuron(r) # Null

\* e starts a chain of n >= 1 tree elements whose last mother is missing or
\* is neither a root agent nor a tree element
ChainEndsWithoutRoot(e) ==
  \E n \in 1 .. Cardinality(DOMAIN kind) :
    /\ \A j \in 0 .. (n - 1) : AsNeurite(Anc(e, j)) # Null
    /\ AsNeurite(Anc(e, n)) = Null
    /\ AsNeuron(Anc(e, n)) = Null

\* C10: FindParentNeuron applied to any element of a chain of tree elements
\* that ends in a root agent returns that root; for a chain that ends without
\* a root agent it returns nullptr; and no step of the call changes the parent
\* links, the agents or any connection list.
C10_OwnerOfChain ==
  /\ [](fpn_pc = "done" =>
          /\ \A r \in DOMAIN kind :
               ChainEndsInRoot(fpn_arg, r) => fpn_mother_neuron = r
          /\ ChainEndsWithoutRoot(fpn_arg) => fpn_mother_neuron = Null)
  /\ [][UNCHANGED worldVars]_vars

\* a finished call on the lower of two chained tree elements returned the root
C10_Witness ==
  /\ fpn_pc = "done"
  /\ fpn_arg # Null
  /\ AsNeurite(mother[fpn_arg]) # Null
  /\ AsNeuron(mother[mother[fpn_arg]]) # Null
  /\ fpn_mother_neuron = mother[mother[fpn_arg]]

\* A call of FindParentNeuron that has started keeps running: the thread that
\* executes the loop tests the condition, runs the body, and returns once the
\* condition is false.  Nothing forces a new call to start.
SpecOwnerFair ==
  /\ InitOwner
  /\ [][NextOwner]_vars
  /\ WF_vars(FPNTest)
  /\ WF_vars(FPNLoop)
  /\ WF_vars(FPNReturn)

\* C11: every started call of the ownership walk returns, on every parent
\* structure, including one whose mother links form a cycle without a root
\* agent.
C11_BoundedWalk == (fpn_pc = "loop") ~> (fpn_pc = "done")

\* ---------------------------------------------------------------- tissue
\* The agents of a simulation: NumNeurons basic_neurons, each with one neurite
\* growing from it; neuron 1's neurite has a daughter segment; one plain
\* NeuronSoma (not a basic_neuron) with a neurite; one neurite whose mother
\* pointer is null.
Neurons        == 1 .. NumNeurons
PlainSoma      == NumNeurons + 1
NeuriteOf(n)   == NumNeurons + 1 + n
DaughterNeurite == 2 * NumNeurons + 2
OrphanNeurite  == 2 * NumNeurons + 3
SomaNeurite    == 2 * NumNeurons + 4
TissueAgents   == 1 .. (2 * NumNeurons + 4)
Neurites       == {a \in TissueAgents : a > PlainSoma}

TissueKind ==
  [a \in TissueAgents |->
     IF a \in Neurons THEN "neuron" ELSE IF a = PlainSoma THEN "soma" ELSE "neurite"]

TissueMother ==
  [a \in TissueAgents |->
     IF a \in Neurons \/ a = PlainSoma \/ a = OrphanNeurite THEN Null
     ELSE IF a = DaughterNeurite THEN NeuriteOf(1)
     ELSE IF a = SomaNeurite THEN PlainSoma
     ELSE a - NumNeurons - 1]

InitTissue ==
  /\ kind = TissueKind
  /\ mother = TissueMother
  /\ state_ = [a \in TissueAgents |-> alive]
  /\ synapses_ = [a \in TissueAgents |-> <<>>]

\* --------------------------------------------------------------- registry
\* FindParentNeuron as a function of its argument: the loop run to its end
RECURSIVE FPNWalk(_, _)
FPNWalk(neurite, mother_neuron) ==
  IF FPNCond(neurite, mother_neuron)
  THEN LET m == mother[neurite] IN FPNWalk(FPNNextNeurite(m), FPNNextNeuron(m))
  ELSE mother_neuron

FindParentNeuron(neurite) == FPNWalk(neurite, Null)

\* Synapses(source, target, distance, strength, time)
Synapses(source, target, distance, strength, time) ==
  [source |-> source, target |-> target, distance |-> distance,
   strength |-> strength, time |-> time]

\* synapse.GetTarget() == neuron for some synapse of the list
TargetsIn(list, neuron) == \E i \in 1 .. Len(list) : list[i].target = neuron

\* faulty variant: only the first neuron's list is searched
hasSynapseOneWay(neuronA, neuronB) == TargetsIn(synapses_[neuronA], neuronB)

hasSynapse(neuronA, neuronB) ==
  \/ TargetsIn(synapses_[neuronA], neuronB)
  \/ TargetsIn(synapses_[neuronB], neuronA)

\* faulty variant: the connection is entered in the target's list as well
AddSynapseMirrored(this, target, distance, strength, time) ==
  [n \in DOMAIN synapses_ |->
     IF n = this \/ n = target
     THEN Append(synapses_[n], Synapses(this, target, distance, strength, time))
     ELSE synapses_[n]]

\* basic_neuron::AddSynapse: synapses_.push_back(Synapses(this, ...))
AddSynapse(this, target, distance, strength, time) ==
  [synapses_ EXCEPT ![this] = Append(@, Synapses(this, target, distance, strength, time))]

\* faulty variant: the duplicate check is left out
CreatesSynapseUnchecked(neuronA, neuronB) ==
  neuronA # Null /\ neuronB # Null

\* faulty variant: only the first parent is required to be found
CreatesSynapseEither(neuronA, neuronB) ==
  /\ neuronA # Null
  /\ (neuronB = Null \/ ~hasSynapse(neuronA, neuronB))

\* whether the call appends: both parents found and no synapse between them
CreatesSynapse(neuronA, neuronB) ==
  /\ neuronA # Null
  /\ neuronB # Null
  /\ ~hasSynapse(neuronA, neuronB)

\* the connection lists after CreateSynapseBetweenNeurites(neurite1, neurite2, ...)
CreateSynapseBetweenNeurites(neurite1, neurite2, distance, strength, time) ==
  LET neuronA == FindParentNeuron(neurite1)
      neuronB == FindParentNeuron(neurite2)
  IN  IF CreatesSynapse(neuronA, neuronB)
      THEN AddSynapse(neuronA, neuronB, distance, strength, time)
      ELSE synapses_

\* what a finished call did: the parents it found and whether it appended
CallRecord(neurite1, neurite2) ==
  LET neuronA == FindParentNeuron(neurite1)
      neuronB == FindParentNeuron(neurite2)
  IN  [n1 |-> neurite1, n2 |-> neurite2, a |-> neuronA, b |-> neuronB,
       added |-> CreatesSynapse(neuronA, neuronB), valid |-> TRUE]

\* int strength = 1  (default argument; the value SynapseFormation::Run passes)
DefaultStrength == 1

CallDistances == {0}
CallStrengths == {DefaultStrength}
CallTimes     == {0}

\* one call of CreateSynapseBetweenNeurites, run from entry to return
CallCreateSynapse(neurite1, neurite2, distance, strength, time) ==
  /\ synapses_' = CreateSynapseBetweenNeurites(neurite1, neurite2, distance, strength, time)
  /\ cs_last' = CallRecord(neurite1, neurite2)
  /\ UNCHANGED <<kind, mother, state_, cs_pc, cs_call, cs_heap, cs_torn, fpnVars,
                 runVars, detVars, expVars>>

InitRegistry ==
  /\ InitTissue
  /\ FpnIdle
  /\ CsIdle
  /\ RunIdle
  /\ DetIdle
  /\ ExpIdle

\* rm->GetAgent(uid): the agent, or nullptr when no agent has this uid
GetAgent(uid) == IF uid \in DOMAIN kind THEN uid ELSE Null

\* the uids looked up: those of the tree elements, of a neuron, of the plain
\* soma, and one that no agent has
UnknownUid == 2 * NumNeurons + 5
LookupUids == Neurites \cup {NumNeurons, PlainSoma, UnknownUid}

\* the tips the calls are made on: one per neuron and one without an owner
RaceTips == {NeuriteOf(n) : n \in Neurons} \cup {OrphanNeurite}

\* the calls made: the first tree element is a tip (or null), the second is
\* obtained as in SynapseFormation::Run,
\* dynamic_cast<NeuriteElement*>(rm->GetAgent(uid))
NextRegistry ==
  \E n1 \in RaceTips \cup {Null}, uid \in LookupUids,
     d \in CallDistances, s \in CallStrengths, t \in CallTimes :
    CallCreateSynapse(n1, AsNeurite(GetAgent(uid)), d, s, t)

SpecRegistry == InitRegistry /\ [][NextRegistry]_vars

\* list s is list t, or list t with entries removed from its end
IsPrefix(s, t) == Len(s) <= Len(t) /\ SubSeq(t, 1, Len(s)) = s

\* number of connections from neuron a to neuron b
CountTo(a, b) ==
  Cardinality({i \in 1 .. Len(synapses_[a]) : synapses_[a][i].target = b})

\* C2: after any sequence of non-overlapping CreateSynapseBetweenNeurites
\* calls, every unordered pair of distinct neurons is linked by at most one
\* connection, counting both directions; a call made while the pair is linked
\* (in either direction) appends nothing.
C2_SymmetricDuplicateAvoidance ==
  /\ [](\A a \in Neurons, b \in Neurons :
          a # b => CountTo(a, b) + CountTo(b, a) <= 1)
  /\ [][(/\ cs_last'.a \in Neurons
         /\ cs_last'.b \in Neurons
         /\ cs_last'.a # cs_last'.b
         /\ CountTo(cs_last'.a, cs_last'.b) + CountTo(cs_last'.b, cs_last'.a) >= 1)
        => synapses_' = synapses_]_vars

\* the last call asked for B -> A while A -> B was registered, and was refused
C2_Witness ==
  /\ cs_last.valid
  /\ cs_last.a \in Neurons
  /\ cs_last.b \in Neurons
  /\ cs_last.a # cs_last.b
  /\ ~cs_last.added
  /\ CountTo(cs_last.b, cs_last.a) = 1
  /\ CountTo(cs_last.a, cs_last.b) = 0

\* C17: a call of CreateSynapseBetweenNeurites on tips of two distinct owners
\* A and B that are not yet linked lengthens A's list by exactly one entry,
\* placed last, with source A and target B, and changes no other list (B's
\* included); a call on a pair already linked changes no list.
C17_FrameOfConnect ==
  [][LET a == cs_last'.a
         b == cs_last'.b
     IN  (cs_last'.valid /\ a \in Neurons /\ b \in Neurons /\ a # b) =>
           IF CountTo(a, b) + CountTo(b, a) = 0
           THEN /\ Len(synapses_'[a]) = Len(synapses_[a]) + 1
                /\ IsPrefix(synapses_[a], synapses_'[a])
                /\ synapses_'[a][Len(synapses_'[a])].source = a
                /\ synapses_'[a][Len(synapses_'[a])].target = b
                /\ \A o \in DOMAIN synapses_ : o # a => synapses_'[o] = synapses_[o]
           ELSE synapses_' = synapses_]_vars

\* the last call connected A to B; A's list held an entry before it and B's
\* list is not empty
C17_Witness ==
  /\ cs_last.valid
  /\ cs_last.added
  /\ cs_last.a \in Neurons
  /\ cs_last.b \in Neurons
  /\ cs_last.a # cs_last.b
  /\ Len(synapses_[cs_last.a]) >= 2
  /\ synapses_[cs_last.a][Len(synapses_[cs_last.a])].target = cs_last.b
  /\ Len(synapses_[cs_last.b]) >= 1

\* ------------------------------------------------------------ reinforcement
\* int strength_: 32 bits, two's complement
IntMax == 2147483647
IntMin == -IntMax - 1

\* a + b in int arithmetic; where the sum leaves the range of int (undefined
\* behaviour) the build yields the wrapped value
IntAdd(a, b) ==
  IF b > 0 /\ a > IntMax - b THEN IntMin + (a - (IntMax - b) - 1)
  ELSE IF b < 0 /\ a < IntMin - b THEN IntMax - ((IntMin - b) - a - 1)
  ELSE a + b

\* Synapses::IncreaseStrength(int amount = 1) { strength_ += amount; }
IncreaseStrength(strength_, amount) == IntAdd(strength_, amount)

\* the amounts passed: the default, a negative one, none, the largest int
Amounts == {1, -1, 0, IntMax}

\* synapses_[i].IncreaseStrength(amount) on a connection of neuron this; the
\* calls are made on connections whose strength is within StrengthCap of zero
CallIncreaseStrength(this, i, amount) ==
  /\ i \in 1 .. Len(synapses_[this])
  /\ synapses_[this][i].strength \in (0 - StrengthCap) .. StrengthCap
  /\ synapses_' = [synapses_ EXCEPT ![this][i].strength = IncreaseStrength(@, amount)]
  /\ UNCHANGED <<kind, mother, state_, fpnVars, csVars, runVars, detVars, expVars>>

InitStrength == InitRegistry

NextStrength ==
  \/ \E n1 \in RaceTips, n2 \in RaceTips,
        d \in CallDistances, s \in CallStrengths, t \in CallTimes :
       CallCreateSynapse(n1, n2, d, s, t)
  \/ \E this \in Neurons, i \in 1 .. (NumNeurons + 1), amount \in Amounts :
       CallIncreaseStrength(this, i, amount)

SpecStrength == InitStrength /\ [][NextStrength]_vars

\* C13: the strength of a connection is never below the strength it was
\* created with (DefaultStrength, the only value connections are created with
\* here), and no call of IncreaseStrength, with any int amount, lowers it.
C13_StrengthNeverDecreases ==
  /\ [](\A a \in DOMAIN synapses_ : \A i \in 1 .. Len(synapses_[a]) :
          synapses_[a][i].strength >= DefaultStrength)
  /\ [][\A a \in DOMAIN synapses_ : \A i \in 1 .. Len(synapses_[a]) :
          synapses_'[a][i].strength >= synapses_[a][i].strength]_vars

\* ------------------------------------------- registry under parallel dispatch
\* The engine runs the behaviors of different agents on different threads, so
\* calls of CreateSynapseBetweenNeurites overlap.  The code takes no lock: the
\* duplicate check and the push_back are separate steps of a call, and the
\* push_back itself reads the vector's end and then stores.  Unsynchronised
\* accesses to one std::vector, one of them a push_back, are a data race
\* (undefined behaviour).  Besides completing on the interleaved reads and
\* stores, a racing access may kill the process (SIGSEGV / abort), and a
\* racing push_back may return leaving the vector torn or the heap damaged,
\* so that the process is aborted at a later use of the heap.
\*
\* A torn vector has its begin in the buffer this call filled and its end in
\* the buffer of the other call: the elements reached first from begin are
\* the entries the call copied and the entry it stored, while size() is the
\* difference of two unrelated pointers (negative, or millions) and no longer
\* the number of entries.  synapses_[a] holds the entries stored; cs_torn
\* holds a when size() and whatever lies past these entries are undefined.

\* the process is alive: no thread has crashed it
CsRunning == \A t \in Threads : cs_pc[t] # "crashed"

\* another thread is inside push_back on the list of neuron
PushInProgress(t, neuron) ==
  \E u \in Threads \ {t} : cs_pc[u] = "store" /\ cs_call[u].neuronA = neuron

\* hasSynapse of thread t iterates a list another thread is appending to, or
\* a torn one
ReadRaced(t) ==
  /\ cs_call[t].neuronA # Null
  /\ cs_call[t].neuronB # Null
  /\ \/ PushInProgress(t, cs_call[t].neuronA)
     \/ PushInProgress(t, cs_call[t].neuronB)
     \/ cs_call[t].neuronA \in cs_torn
     \/ cs_call[t].neuronB \in cs_torn

\* the value of  size  after a read of begin and end taken at different
\* moments of another push_back: not the length of the list at any moment
TornRead == -1

\* the push_back of thread t overlaps another push_back on the same list:
\* one is in progress now, or one changed the list since t read its end (or
\* left it torn)
WriteRaced(t) ==
  \/ PushInProgress(t, cs_call[t].neuronA)
  \/ cs_call[t].neuronA \in cs_torn
  \/ /\ cs_pc[t] = "store"
     /\ cs_call[t].size # Len(synapses_[cs_call[t].neuronA])

\* what an access may do: complete, or when it races, any of  racing
AccessOutcomes(raced, racing) ==
  IF raced THEN {"complete"} \cup racing ELSE {"complete"}

\* the access kills the process
CSCrash(t) ==
  /\ cs_pc' = [cs_pc EXCEPT ![t] = "crashed"]
  /\ UNCHANGED <<worldVars, cs_last, cs_call, cs_heap, cs_torn, fpnVars, runVars,
                 detVars, expVars>>

\* entry: the two FindParentNeuron calls (they read only the parent links)
CSEnter(t, neurite1, neurite2) ==
  /\ CsRunning
  /\ cs_pc[t] = "idle"
  /\ cs_pc' = [cs_pc EXCEPT ![t] = "check"]
  /\ cs_call' = [cs_call EXCEPT ![t] =
                   [neurite1 |-> neurite1, neurite2 |-> neurite2,
                    neuronA |-> FindParentNeuron(neurite1),
                    neuronB |-> FindParentNeuron(neurite2),
                    distance |-> 0, strength |-> 1, time |-> 0, size |-> 0]]
  /\ UNCHANGED <<worldVars, cs_last, cs_heap, cs_torn, fpnVars, runVars, detVars,
                 expVars>>

\* if (neuronA && neuronB) { if (!hasSynapse(neuronA, neuronB)) ... } else cerr
CSCheck(t) ==
  /\ CsRunning
  /\ cs_pc[t] = "check"
  /\ \E outcome \in AccessOutcomes(ReadRaced(t), {"crash"}) :
       IF outcome = "crash" THEN CSCrash(t)
       ELSE /\ cs_pc' = [cs_pc EXCEPT ![t] =
                           IF CreatesSynapse(cs_call[t].neuronA, cs_call[t].neuronB)
                           THEN "push" ELSE "return"]
            /\ UNCHANGED <<worldVars, cs_last, cs_call, cs_heap, cs_torn, fpnVars,
                           runVars, detVars, expVars>>

\* synapses_.push_back: read the end of the vector (begin, end and the end
\* of storage are read one by one)
CSPushRead(t) ==
  /\ CsRunning
  /\ cs_pc[t] = "push"
  /\ \E outcome \in AccessOutcomes(WriteRaced(t), {"crash", "torn"}) :
       IF outcome = "crash" THEN CSCrash(t)
       ELSE /\ cs_pc' = [cs_pc EXCEPT ![t] = "store"]
            /\ cs_call' = [cs_call EXCEPT ![t].size =
                             IF outcome = "torn" THEN TornRead
                             ELSE Len(synapses_[cs_call[t].neuronA])]
            /\ UNCHANGED <<worldVars, cs_last, cs_heap, cs_torn, fpnVars, runVars,
                           detVars, expVars>>

\* what the store of thread t may do
StoreOutcomes(t) ==
  IF cs_call[t].size = TornRead THEN {"crash", "torn"}
  ELSE AccessOutcomes(WriteRaced(t), {"crash", "torn", "damaged"})

\* the numbers of entries the call may have copied into its buffer before
\* its own: the size it read, or after a torn read any size the list had
CopiedSizes(t) ==
  IF cs_call[t].size = TornRead
  THEN 0 .. Len(synapses_[cs_call[t].neuronA])
  ELSE {cs_call[t].size}

\* synapses_.push_back: store the element at the end read, end = end + 1
\* (the three pointers of the vector are stored one by one).  Whatever else
\* the outcome, the buffer the vector begins with holds the entries copied
\* and the entry stored.
CSPushStore(t) ==
  /\ CsRunning
  /\ cs_pc[t] = "store"
  /\ \E outcome \in StoreOutcomes(t) :
       IF outcome = "crash" THEN CSCrash(t)
       ELSE LET c == cs_call[t] IN
         /\ \E size \in CopiedSizes(t) :
              synapses_' = [synapses_ EXCEPT ![c.neuronA] =
                              Append(SubSeq(@, 1, size),
                                     Synapses(c.neuronA, c.neuronB, c.distance,
                                              c.strength, c.time))]
         /\ cs_torn' = IF outcome = "torn" THEN cs_torn \cup {c.neuronA}
                       ELSE cs_torn
         /\ cs_heap' = IF outcome = "complete" THEN cs_heap ELSE "damaged"
         /\ cs_last' = [n1 |-> c.neurite1, n2 |-> c.neurite2, a |-> c.neuronA,
                         b |-> c.neuronB, added |-> TRUE, valid |-> TRUE]
         /\ cs_pc' = [cs_pc EXCEPT ![t] = "done"]
         /\ UNCHANGED <<kind, mother, state_, cs_call, fpnVars, runVars, detVars,
                        expVars>>

\* a call that appended nothing returns
CSReturn(t) ==
  /\ CsRunning
  /\ cs_pc[t] = "return"
  /\ cs_pc' = [cs_pc EXCEPT ![t] = "done"]
  /\ cs_last' = [n1 |-> cs_call[t].neurite1, n2 |-> cs_call[t].neurite2,
                  a |-> cs_call[t].neuronA, b |-> cs_call[t].neuronB,
                  added |-> FALSE, valid |-> TRUE]
  /\ UNCHANGED <<worldVars, cs_call, cs_heap, cs_torn, fpnVars, runVars, detVars,
                 expVars>>

\* the heap was damaged by a racing push_back: glibc aborts the process at a
\* later allocation or free made by thread t
CSAbort(t) ==
  /\ CsRunning
  /\ cs_heap = "damaged"
  /\ CSCrash(t)

InitRace == InitRegistry

NextRace ==
  \E t \in Threads :
    \/ \E n1 \in RaceTips, n2 \in RaceTips : CSEnter(t, n1, n2)
    \/ CSCheck(t)
    \/ CSPushRead(t)
    \/ CSPushStore(t)
    \/ CSReturn(t)
    \/ CSAbort(t)

SpecRace == InitRace /\ [][NextRace]_vars

\* every access made so far completed: no thread was killed, no read of the
\* vector was torn, no vector is left torn and the heap is not damaged
Intact ==
  /\ CsRunning
  /\ cs_heap = "ok"
  /\ cs_torn = {}
  /\ \A t \in Threads : cs_call[t].size # TornRead

\* the steps of the overlapping calls in which the access completes
NextRaceIntact ==
  \E t \in Threads :
    \/ (\E n1 \in RaceTips, n2 \in RaceTips : CSEnter(t, n1, n2)) /\ Intact'
    \/ CSCheck(t) /\ Intact'
    \/ CSPushRead(t) /\ Intact'
    \/ CSPushStore(t) /\ Intact'
    \/ CSReturn(t) /\ Intact'

\* the behaviours of SpecRace in which every access completes: the checks
\* and the appends of the calls interleave, and nothing else goes wrong
SpecRaceIntact == InitRace /\ [][NextRaceIntact]_vars

\* the calls of all threads have finished and thread t's call was for the
\* owners a and b, in either direction
CallFor(t, a, b) ==
  /\ cs_pc[t] = "done"
  /\ {cs_call[t].neuronA, cs_call[t].neuronB} = {a, b}

\* C1: when overlapping calls target the same unordered pair of distinct
\* owners, exactly one connection between the two is registered once all the
\* calls have finished.
C1_ExactlyOneUnderRace ==
  \A a \in Neurons, b \in Neurons :
    (a # b /\ \A t \in Threads : CallFor(t, a, b))
      => CountTo(a, b) + CountTo(b, a) = 1

\* C12: the connection list of every root agent only grows at its end: over
\* every step of a run the list before the step is a prefix of the list after
\* it; no entry is removed, moved or overwritten.
C12_AppendOnly ==
  [][\A a \in DOMAIN synapses_ : IsPrefix(synapses_[a], synapses_'[a])]_vars

\* ------------------------------------------------------------------ export
\* a lifecycle state other than alive and dead, as SetState(int) accepts
OtherState == 2
ExportStates == {alive, dead, OtherState}

\* faulty variant: the entry records that a connection exists, not how many
IncrementSetOne(adjacency, key) ==
  IF key \in DOMAIN adjacency
  THEN adjacency
  ELSE [k \in DOMAIN adjacency \cup {key} |-> IF k = key THEN 1 ELSE adjacency[k]]

\* adjacency[std::make_pair(uid, target_uid)]++
Increment(adjacency, key) ==
  IF key \in DOMAIN adjacency
  THEN [adjacency EXCEPT ![key] = @ + 1]
  ELSE [k \in DOMAIN adjacency \cup {key} |-> IF k = key THEN 1 ELSE adjacency[k]]

\* for (const auto& synapse : neuron->GetSynapses()) adjacency[...]++
RECURSIVE CountSynapses(_, _, _, _)
CountSynapses(adjacency, uid, list, i) ==
  IF i > Len(list) THEN adjacency
  ELSE CountSynapses(Increment(adjacency, <<uid, list[i].target>>), uid, list, i + 1)

\* neuron && neuron->GetState() != States::dead
IsLiveNeuron(agent) == AsNeuron(agent) # Null /\ state_[agent] # dead

\* the body of the ForEachAgent lambda, applied to one agent
ExportVisit(maps, agent) ==
  IF IsLiveNeuron(agent)
  THEN [adjacency  |-> CountSynapses(maps.adjacency, agent, synapses_[agent], 1),
        cell_types |-> [u \in DOMAIN maps.cell_types \cup {agent} |->
                          IF u = agent THEN state_[agent] ELSE maps.cell_types[u]]]
  ELSE maps

\* rm->ForEachAgent(...) over the agents 1 .. n
RECURSIVE ExportMaps(_)
ExportMaps(n) ==
  IF n = 0 THEN [adjacency |-> <<>>, cell_types |-> <<>>]
  ELSE ExportVisit(ExportMaps(n - 1), n)

\* the orders in which an unordered_map may hand out the entries with the
\* given keys: the iteration order is unspecified, every order is possible
Orders(keys) ==
  {o \in [1 .. Cardinality(keys) -> keys] :
     \A i \in 1 .. Cardinality(keys), j \in 1 .. Cardinality(keys) :
       i # j => o[i] # o[j]}

\* "Write neurons with connections": one line per adjacency entry, in the
\* order the map hands them out
PairLines(maps, order) ==
  [i \in 1 .. Len(order) |->
     <<order[i][1], order[i][2], maps.cell_types[order[i][1]],
       maps.adjacency[order[i]]>>]

\* faulty variant: the zero row is written only for a neuron that is no source
ZeroRowNeededNoSource(adjacency, uid) ==
  \A k \in DOMAIN adjacency : k[1] # uid

\* adjacency.find(make_pair(uid, uid)) == adjacency.end()
ZeroRowNeeded(adjacency, uid) == <<uid, uid>> \notin DOMAIN adjacency

\* "Write neurons without connections": one line per cell_types entry that
\* has no (uid, uid) adjacency entry, in the order the map hands them out
RECURSIVE ZeroLines(_, _, _)
ZeroLines(maps, order, i) ==
  IF i > Len(order) THEN <<>>
  ELSE (IF ZeroRowNeeded(maps.adjacency, order[i])
        THEN << <<order[i], order[i], maps.cell_types[order[i]], 0>> >> ELSE <<>>)
         \o ZeroLines(maps, order, i + 1)

\* the data lines of the file (after the header line)
ExportLines(maps, pair_order, uid_order) ==
  PairLines(maps, pair_order) \o ZeroLines(maps, uid_order, 1)

\* export_connection_list(); the file may fail to open
export_connection_list(opens) ==
  /\ file.status = "none"
  /\ LET maps == ExportMaps(Cardinality(DOMAIN kind)) IN
       \E pair_order \in Orders(DOMAIN maps.adjacency),
          uid_order \in Orders(DOMAIN maps.cell_types) :
         file' = IF opens
                 THEN [status |-> "written",
                       lines |-> ExportLines(maps, pair_order, uid_order)]
                 ELSE [status |-> "failed", lines |-> <<>>]
  /\ UNCHANGED <<worldVars, fpnVars, csVars, runVars, detVars>>

TotalSynapses(n) ==
  Cardinality({<<a, i>> \in (1 .. n) \X (1 .. MaxSynapses) : i <= Len(synapses_[a])})

\* neuron->AddSynapse(target, ...) called by the surrounding model
ExpAddSynapse(this, target) ==
  /\ file.status = "none"
  /\ TotalSynapses(Cardinality(DOMAIN kind)) < MaxSynapses
  /\ synapses_' = AddSynapse(this, target, 0, 1, 0)
  /\ UNCHANGED <<kind, mother, state_, fpnVars, csVars, runVars, detVars, expVars>>

\* basic_neuron::SetState
SetState(this, state) ==
  /\ file.status = "none"
  /\ state_' = [state_ EXCEPT ![this] = state]
  /\ UNCHANGED <<kind, mother, synapses_, fpnVars, csVars, runVars, detVars, expVars>>

InitExport == InitRegistry

NextExport ==
  \/ \E this \in Neurons, target \in Neurons : ExpAddSynapse(this, target)
  \/ \E this \in Neurons, state \in ExportStates : SetState(this, state)
  \/ \E opens \in BOOLEAN : export_connection_list(opens)

SpecExport == InitExport /\ [][NextExport]_vars

\* the written lines with source s and target t and a count above zero /
\* of zero
PairRowsOf(s, t) ==
  {i \in 1 .. Len(file.lines) :
     file.lines[i][1] = s /\ file.lines[i][2] = t /\ file.lines[i][4] > 0}

ZeroRowsOf(s) ==
  {i \in 1 .. Len(file.lines) :
     file.lines[i][1] = s /\ file.lines[i][2] = s /\ file.lines[i][4] = 0}

RowsFrom(s) == {i \in 1 .. Len(file.lines) : file.lines[i][1] = s}

Live(a) == kind[a] = "neuron" /\ state_[a] # dead

\* C7: a zero-count row (id,id,class,0) is written for a live owner only if
\* that owner is not the source of a pair row.
C7_ZeroRowOnlyIfNoSource ==
  file.status = "written" =>
    \A s \in DOMAIN kind :
      ZeroRowsOf(s) # {} => \A t \in DOMAIN kind : PairRowsOf(s, t) = {}

\* C8: the export writes the row (id,id,class,0) for exactly the live owners
\* that have no connection to themselves; every live owner is the source of
\* at least one row and no dead owner (and no agent that is not an owner) is
\* the source of any row.
C8_ExportCompleteness ==
  file.status = "written" =>
    \A a \in DOMAIN kind :
      /\ Live(a) =>
           /\ Cardinality(ZeroRowsOf(a)) = (IF CountTo(a, a) = 0 THEN 1 ELSE 0)
           /\ \A i \in ZeroRowsOf(a) : file.lines[i][3] = state_[a]
           /\ RowsFrom(a) # {}
      /\ ~Live(a) => RowsFrom(a) = {}

\* written: a live owner with a connection to itself (so without a zero row)
\* and a dead owner that has a connection
C8_Witness ==
  /\ file.status = "written"
  /\ \E a \in Neurons : Live(a) /\ CountTo(a, a) > 0 /\ ZeroRowsOf(a) = {}
  /\ \E a \in Neurons : state_[a] = dead /\ Len(synapses_[a]) > 0

\* C9: for every live owner s and every t, exactly one pair row (s,t,class(s),n)
\* is written if s has a connection to t, with n the number of connections of
\* s whose target is t, and none otherwise; dead sources contribute no row.
C9_ExportMultiplicity ==
  file.status = "written" =>
    \A s \in DOMAIN kind :
      /\ Live(s) =>
           \A t \in DOMAIN kind :
             /\ Cardinality(PairRowsOf(s, t)) = (IF CountTo(s, t) >= 1 THEN 1 ELSE 0)
             /\ \A i \in PairRowsOf(s, t) :
                  file.lines[i] = <<s, t, state_[s], CountTo(s, t)>>
      /\ ~Live(s) => \A t \in DOMAIN kind : PairRowsOf(s, t) = {}

\* written: a live owner with two parallel connections to one target, and a
\* dead owner with a connection
C9_Witness ==
  /\ file.status = "written"
  /\ \E s \in Neurons, t \in Neurons : Live(s) /\ s # t /\ CountTo(s, t) = 2
  /\ \E s \in Neurons : state_[s] = dead /\ Len(synapses_[s]) > 0

\* ------------------------------------------------------- DendriticDetector
\* Distances are in tenths of a spatial unit, squared distances in
\* hundredths; the inputs are squares of tenths, on which Sqrt is exact.
NoNeighbour == -1        \* int closest_neighbour_uid = -1
Crash       == -2        \* the call dereferenced a null pointer
RealMax     == 1000000   \* std::numeric_limits<real_t>::max()
Cutoff      == 10        \* distance < 1

SqDists == {9, 81, 100}  \* 0.3, 0.9 and 1.0 spatial units

\* std::sqrt(squared_distance)
Sqrt(x) == CHOOSE r \in 0 .. x : r * r = x

\* The walk of lines 41-46 (and 63-75), entered with the first mother:
\*   mother_neuron = dynamic_cast<basic_neuron*>(mother);
\*   while (mother_neuron == nullptr && mother != nullptr)
\*     mother = dynamic_cast<NeuriteElement*>(mother)->GetMother().Get(); ...
\* It ends with the neuron found, with nullptr when a mother pointer is null,
\* and dereferences a null pointer when a mother is not a NeuriteElement.
RECURSIVE DetClimb(_)
DetClimb(m) ==
  IF AsNeuron(m) # Null THEN m
  ELSE IF m = Null THEN Null
  ELSE IF AsNeurite(m) = Null THEN Crash
  ELSE DetClimb(mother[m])

DetMotherNeuron(neurite) == DetClimb(mother[neurite])

\* faulty variant: the owners are not compared
OwnerDiffersAlways(neighbor_mother_cell_uid, mother_cell_uid) == TRUE

\* if (neighbor_mother_cell_uid != mother_cell_uid)
OwnerDiffers(neighbor_mother_cell_uid, mother_cell_uid) ==
  neighbor_mother_cell_uid # mother_cell_uid

\* if (distance < closest_distance && distance < 1)
Closer(distance, closest_distance) ==
  distance < closest_distance /\ distance < Cutoff

\* the lambda print_id_distance applied to one neighbor; st holds
\* closest_neighbour_uid, closest_distance and whether the call has crashed
DetVisit(st, a, squared_distance, mother_cell_uid) ==
  IF st.crashed \/ AsNeurite(a) = Null THEN st
  ELSE LET neighbor_mother_neuron == DetMotherNeuron(a) IN
    IF neighbor_mother_neuron = Crash \/ neighbor_mother_neuron = Null
    THEN [st EXCEPT !.crashed = TRUE]      \* neighbor_mother_neuron->GetUid()
    ELSE IF OwnerDiffers(neighbor_mother_neuron, mother_cell_uid)
              /\ Closer(Sqrt(squared_distance), st.dist)
         THEN [uid |-> a, dist |-> Sqrt(squared_distance), crashed |-> FALSE]
         ELSE st

\* ctxt->ForEachNeighbor(print_id_distance, ...): the neighbors in order
RECURSIVE DetFold(_, _, _, _)
DetFold(st, cands, i, mother_cell_uid) ==
  IF i > Len(cands) THEN st
  ELSE DetFold(DetVisit(st, cands[i].agent, cands[i].sq, mother_cell_uid),
               cands, i + 1, mother_cell_uid)

\* DendriticDetector(agent, ...) given the neighbors reported and the value
\* the uninitialized mother_cell_uid holds when no mother neuron was found
DendriticDetector(agent, cands, uninit) ==
  LET mother_neuron == DetMotherNeuron(agent) IN
    IF mother_neuron = Crash THEN Crash
    ELSE LET mother_cell_uid == IF mother_neuron # Null THEN mother_neuron ELSE uninit
             st == DetFold([uid |-> NoNeighbour, dist |-> RealMax, crashed |-> FALSE],
                           cands, 1, mother_cell_uid)
         IN  IF st.crashed THEN Crash ELSE st.uid

\* values an uninitialized int may hold: the uid of any neuron, or no uid
Uninit == Neurons \cup {Null}

\* everything a call may produce
DetectorOutcomes(agent, cands) ==
  {DendriticDetector(agent, cands, u) : u \in Uninit}

\* the neighbor lists: distinct agents, each with its squared distance
CandSeqs ==
  UNION {{c \in [1 .. n -> [agent : TissueAgents, sq : SqDists]] :
            \A i \in 1 .. n, j \in 1 .. n : i # j => c[i].agent # c[j].agent}
         : n \in 0 .. MaxCands}

InitDet ==
  /\ InitTissue
  /\ FpnIdle
  /\ CsIdle
  /\ RunIdle
  /\ ExpIdle
  /\ det_pc = "called"
  /\ det_tip \in Neurites
  /\ det_cands \in CandSeqs
  /\ det_result = Null

\* the call runs to its end (or crashes)
Detect ==
  /\ det_pc = "called"
  /\ det_pc' = "done"
  /\ det_result' \in DetectorOutcomes(det_tip, det_cands)
  /\ UNCHANGED <<det_tip, det_cands, worldVars, fpnVars, csVars, runVars, expVars>>

NextDet == Detect

SpecDet == InitDet /\ [][NextDet]_vars

\* the owner of a tree element: the root its chain ends in, if any
OwnerIs(e, r) == AsNeurite(e) # Null /\ ChainEndsInRoot(e, r)

\* the reported neighbors that are tree elements of another owner than the
\* tip's, at a distance below 1.0
Qualifying ==
  {i \in 1 .. Len(det_cands) :
     /\ \E r \in DOMAIN kind :
          OwnerIs(det_cands[i].agent, r) /\ ~OwnerIs(det_tip, r)
     /\ det_cands[i].sq < Cutoff * Cutoff}

\* C5: the classifier returns a tree element of another owner whose distance
\* is the least among those below 1.0, and -1 when there is none.
C5_NearestNeighbour ==
  det_pc = "done" =>
    IF Qualifying = {}
    THEN det_result = NoNeighbour
    ELSE \E i \in Qualifying :
           /\ det_result = det_cands[i].agent
           /\ \A j \in Qualifying : det_cands[i].sq <= det_cands[j].sq

\* C6: for a tip whose owner resolves, a neighbor with the same owner is never
\* returned, whatever its distance and whatever the other neighbors are.
C6_SelfOwnerExclusion ==
  det_pc = "done" =>
    \A r \in DOMAIN kind :
      OwnerIs(det_tip, r) =>
        \A i \in 1 .. Len(det_cands) :
          OwnerIs(det_cands[i].agent, r) => det_result # det_cands[i].agent

\* a neighbor of the tip's own owner was the nearest, below the cutoff, and
\* the call returned a farther neighbor of another owner
C6_Witness ==
  /\ det_pc = "done"
  /\ \E r \in DOMAIN kind, i \in 1 .. Len(det_cands), j \in 1 .. Len(det_cands) :
       /\ OwnerIs(det_tip, r)
       /\ OwnerIs(det_cands[i].agent, r)
       /\ det_cands[i].agent # det_tip
       /\ det_cands[i].sq < det_cands[j].sq
       /\ det_cands[j].sq < Cutoff * Cutoff
       /\ det_result = det_cands[j].agent

\* a tree element whose parent chain ends without a root agent
Unresolved(e) == AsNeurite(e) # Null /\ \A r \in DOMAIN kind : ~OwnerIs(e, r)

\* C14: the classifier never ends in a crash; a reported neighbor whose owner
\* cannot be resolved is skipped, so that the result is the nearest of the
\* other qualifying neighbors (-1 if there is none); for a tip whose own owner
\* cannot be resolved the result is -1; the call changes no connection list.
C14_NonFatalResolutionFailure ==
  /\ [](det_pc = "done" =>
          /\ det_result # Crash
          /\ Unresolved(det_tip) => det_result = NoNeighbour
          /\ (/\ ~Unresolved(det_tip)
              /\ \E i \in 1 .. Len(det_cands) : Unresolved(det_cands[i].agent))
             => IF Qualifying = {}
                THEN det_result = NoNeighbour
                ELSE \E i \in Qualifying :
                       /\ det_result = det_cands[i].agent
                       /\ \A j \in Qualifying : det_cands[i].sq <= det_cands[j].sq)
  /\ [][synapses_' = synapses_]_vars

\* The classifier on longer neighbor lists made of tree elements only (other
\* agents are passed over by the lambda's first test).
TieCandSeqs ==
  UNION {{c \in [1 .. n -> [agent : Neurites, sq : SqDists]] :
            \A i \in 1 .. n, j \in 1 .. n : i # j => c[i].agent # c[j].agent}
         : n \in 0 .. MaxTieCands}

InitDetTie ==
  /\ InitTissue
  /\ FpnIdle
  /\ CsIdle
  /\ RunIdle
  /\ ExpIdle
  /\ det_pc = "called"
  /\ det_tip \in Neurites
  /\ det_cands \in TieCandSeqs
  /\ det_result = Null

SpecDetTie == InitDetTie /\ [][NextDet]_vars

\* the qualifying neighbors at the least distance, when two or more share it
TiedNearest ==
  LET nearest == {i \in Qualifying : \A j \in Qualifying : det_cands[i].sq <= det_cands[j].sq}
  IN  IF Cardinality(nearest) >= 2 THEN nearest ELSE {}

\* C16: for a tip whose owner resolves, when two or more qualifying neighbors
\* of other owners share the least distance (below 1.0), the classifier
\* returns the one of them that was reported first.
C16_TieBreakFirstWins ==
  (det_pc = "done" /\ ~Unresolved(det_tip) /\ TiedNearest # {})
    => \E i \in TiedNearest :
         /\ \A j \in TiedNearest : i <= j
         /\ det_result = det_cands[i].agent

\* what CreateSynapseBetweenNeurites cannot connect: a null pointer (the
\* lookup found no agent, or an agent that is no tree element) or a tree
\* element whose owner cannot be resolved
NotConnectable(n) == AsNeurite(n) = Null \/ Unresolved(n)

\* C15: a call of CreateSynapseBetweenNeurites in which either endpoint is
\* null, is no tree element, or has no resolvable owner returns normally,
\* registers no connection and leaves every connection list unchanged.
C15_InvalidNeighbourSkipped ==
  [][(/\ cs_last'.valid
      /\ (NotConnectable(cs_last'.n1) \/ NotConnectable(cs_last'.n2)))
     => (synapses_' = synapses_ /\ ~cs_last'.added)]_vars

\* with connections registered, the last call paired a tip of a neuron
\* with a tree element that has no owner, and registered nothing
C15_Witness ==
  /\ cs_last.valid
  /\ cs_last.a \in Neurons
  /\ Unresolved(cs_last.n2)
  /\ ~cs_last.added
  /\ \E a \in Neurons : Len(synapses_[a]) > 0

\* ------------------------------------------- the simulation run (scheduler)
\* synapse_op: "simulation time is -3 the maximum value of the simulation time"
MaxSimTime == 500
WindowLen  == 3

\* new SynapseFormation(): synapsed_ = false.  attempts counts the calls of
\* DendriticDetector this behavior has made (history, not program state).
NewSynapseFormation == [synapsed_ |-> FALSE, attempts |-> 0, found |-> Null]

\* faulty variant: the formation time is left at the default argument, 0
TimeStepDefault(simulated_steps) == 0

\* int time_step = Simulation::GetActive()->GetScheduler()->GetSimulatedSteps()
TimeStep(simulated_steps) == simulated_steps

\* SynapseFormation::Run(agent) of the next behavior of the agent that has
\* not run in this step, given the neighbors ForEachNeighbor reports.  The
\* agents are taken in the order of their uids.
Run(agent, cands) ==
  /\ phase = "agents"
  /\ next_beh[agent] < Len(behaviors[agent])
  /\ \A a \in DOMAIN kind : a < agent => next_beh[a] = Len(behaviors[a])
  /\ LET b == next_beh[agent] + 1
         time_step == TimeStep(steps)
     IN
       /\ next_beh' = [next_beh EXCEPT ![agent] = b]
       /\ IF ~behaviors[agent][b].synapsed_
          THEN \E closest_neighbour_uid \in DetectorOutcomes(agent, cands) :
                 /\ behaviors' = [behaviors EXCEPT ![agent][b] =
                                   [@ EXCEPT !.attempts = @ + 1,
                                             !.found = closest_neighbour_uid]]
                 /\ decided' = decided \cup {time_step}
                 /\ IF closest_neighbour_uid = Crash
                    THEN /\ phase' = "crashed"
                         /\ UNCHANGED synapses_
                    ELSE /\ phase' = phase
                         /\ IF closest_neighbour_uid # NoNeighbour
                            THEN synapses_' = CreateSynapseBetweenNeurites(
                                     agent, AsNeurite(GetAgent(closest_neighbour_uid)),
                                     0, 1, time_step)
                            ELSE UNCHANGED synapses_
          ELSE UNCHANGED <<behaviors, decided, phase, synapses_>>
  /\ UNCHANGED <<kind, mother, state_, steps, csVars, fpnVars, detVars, expVars>>

\* AddSynapseBehavior(axon_element): only a NeuriteElement gets a behavior
AddSynapseBehavior(axon_element) ==
  IF AsNeurite(axon_element) = Null
  THEN behaviors[axon_element]
  ELSE Append(behaviors[axon_element], NewSynapseFormation)

\* faulty variant: the operation attaches the behaviors at every step
InFormationWindowAlways(simulated_steps) == TRUE

\* GetSimulatedSteps() > 500 - 3
InFormationWindow(simulated_steps) == simulated_steps > MaxSimTime - WindowLen

\* synapse_op::operator()(), run by the scheduler after the agent operations
\* of the step
synapse_op ==
  /\ phase = "agents"
  /\ \A a \in DOMAIN kind : next_beh[a] = Len(behaviors[a])
  /\ phase' = "ops"
  /\ behaviors' = IF InFormationWindow(steps)
                  THEN [a \in DOMAIN kind |-> AddSynapseBehavior(a)]
                  ELSE behaviors
  /\ UNCHANGED <<steps, next_beh, decided, worldVars, fpnVars, csVars, detVars, expVars>>

\* the scheduler ends the step: total_steps_++; the run is MaxSimTime steps
EndStep ==
  /\ phase = "ops"
  /\ steps' = steps + 1
  /\ next_beh' = [a \in DOMAIN kind |-> 0]
  /\ phase' = IF steps + 1 = MaxSimTime THEN "finished" ELSE "agents"
  /\ UNCHANGED <<behaviors, decided, worldVars, fpnVars, csVars, detVars, expVars>>

Init ==
  /\ InitTissue
  /\ FpnIdle
  /\ CsIdle
  /\ RunIdle
  /\ DetIdle
  /\ ExpIdle

\* the neighbor lists of the run: tree elements only (other agents among the
\* neighbors are passed over by the lambda, see DetVisit)
RunCandSeqs == {c \in CandSeqs : \A i \in 1 .. Len(c) : c[i].agent \in Neurites}

Next ==
  \/ \E agent \in TissueAgents, cands \in RunCandSeqs : Run(agent, cands)
  \/ synapse_op
  \/ EndStep

Spec == Init /\ [][Next]_vars

\* C3: a behavior that has made its formation attempt is Resolved
\* (synapsed_ = true), and no tip makes more than one attempt in a run.
C3_OneShot ==
  \A a \in DOMAIN behaviors :
    \A i \in 1 .. Len(behaviors[a]) :
      /\ behaviors[a][i].attempts >= 1 => behaviors[a][i].synapsed_
      /\ behaviors[a][i].attempts <= 1

\* the last WindowLen steps of a run of MaxSimTime steps (steps count from 0)
InTrailingWindow(t) == t >= MaxSimTime - WindowLen /\ t < MaxSimTime

\* C4: the classifier and the registry are called only at steps within the
\* last 3 of the 500 steps of the run, so every registered connection has its
\* formation time inside that window.
C4_TrailingWindow ==
  /\ \A t \in decided : InTrailingWindow(t)
  /\ \A a \in DOMAIN synapses_ :
       \A i \in 1 .. Len(synapses_[a]) : InTrailingWindow(synapses_[a][i].time)

\* a formation decision was taken and a connection registered by it
C4_Witness ==
  /\ decided # {}
  /\ \E a \in Neurons : Len(synapses_[a]) > 0 /\ synapses_[a][1].time \in decided

\* C18: every connection the formation flow creates is recorded with distance
\* 0.0 (the neighbors are all at a distance above 0), strength 1 and, as its
\* time, the value of the simulated-step counter at the call; the flow never
\* alters an entry once recorded.
C18_RecordedAttributes ==
  /\ [](\A a \in DOMAIN synapses_ : \A i \in 1 .. Len(synapses_[a]) :
          synapses_[a][i].distance = 0 /\ synapses_[a][i].strength = 1)
  /\ [][\A a \in DOMAIN synapses_ :
          /\ IsPrefix(synapses_[a], synapses_'[a])
          /\ \A i \in (Len(synapses_[a]) + 1) .. Len(synapses_'[a]) :
               synapses_'[a][i].time = steps]_vars

\* a connection was created in the current step, from a neighbor reported at
\* a distance above 0
C18_Witness ==
  /\ phase = "agents"
  /\ \E a \in Neurons : \E i \in 1 .. Len(synapses_[a]) :
       /\ synapses_[a][i].time = steps
       /\ synapses_[a][i].distance = 0
       /\ synapses_[a][i].target # a
  /\ \A sq \in SqDists : sq > 0

\* C20: at every point of a run driven by synapse_op and SynapseFormation::Run
\* no connection list holds a connection from a neuron to itself.
C20_NoSelfConnections ==
  \A a \in DOMAIN synapses_ : \A i \in 1 .. Len(synapses_[a]) :
    synapses_[a][i].source # synapses_[a][i].target

\* the tips of all neurons have made their formation attempts, and the
\* connection registered links two different neurons
C20_Witness ==
  /\ \A n \in Neurons :
       /\ Len(behaviors[NeuriteOf(n)]) >= 1
       /\ behaviors[NeuriteOf(n)][1].attempts >= 1
  /\ behaviors[DaughterNeurite][1].attempts >= 1
  /\ \E a \in Neurons, b \in Neurons :
       /\ a # b
       /\ Len(synapses_[a]) = 1
       /\ synapses_[a][1].source = a
       /\ synapses_[a][1].target = b

\* ------------------------------------------------- a well-formed tissue
\* NumRepeatOwners neurons, each with one neurite (its tip); the first neuron
\* has a second one.
RepeatOwners == 1 .. NumRepeatOwners
RepeatAgents == 1 .. (2 * NumRepeatOwners + 1)
RepeatTips   == {a \in RepeatAgents : a > NumRepeatOwners}

\* the neighbor lists: distinct tips, each with its squared distance
RepeatCandSeqs ==
  UNION {{c \in [1 .. n -> [agent : RepeatTips, sq : SqDists]] :
            \A i \in 1 .. n, j \in 1 .. n : i # j => c[i].agent # c[j].agent}
         : n \in 0 .. MaxCands}

\* ------------------------------------- the run on a well-formed tissue
\* The run of MaxSimTime steps on NumRepeatOwners neurons and their neurites
\* (every owner resolves, so no DendriticDetector call crashes), followed
\* by the export.
InitFlow ==
  /\ kind = [a \in RepeatAgents |-> IF a \in RepeatOwners THEN "neuron" ELSE "neurite"]
  /\ mother = [a \in RepeatAgents |-> IF a \in RepeatOwners THEN Null
                                     ELSE ((a - 1) % NumRepeatOwners) + 1]
  /\ state_ = [a \in RepeatAgents |-> alive]
  /\ synapses_ = [a \in RepeatAgents |-> <<>>]
  /\ FpnIdle
  /\ CsIdle
  /\ RunIdle
  /\ DetIdle
  /\ ExpIdle

\* export_connection_list() called once the scheduler has finished the run
ExportAfterRun ==
  /\ phase = "finished"
  /\ \E opens \in BOOLEAN : export_connection_list(opens)

NextFlow ==
  \/ \E agent \in RepeatAgents, cands \in RepeatCandSeqs : Run(agent, cands)
  \/ synapse_op
  \/ EndStep
  \/ ExportAfterRun

SpecFlow == InitFlow /\ [][NextFlow]_vars

\* C21: at every point of a run each tree element carries at most one
\* SynapseFormation behavior (synapse_op does not attach a second one at a
\* later step of the window), and an agent that is no tree element carries
\* none.
C21_SinglePolicyInstance ==
  \A a \in DOMAIN behaviors :
    /\ Len(behaviors[a]) <= 1
    /\ AsNeurite(a) = Null => Len(behaviors[a]) = 0

\* C22: in a run whose formation calls execute one after another, followed by
\* the export, every pair row of the file has count exactly 1, and for no two
\* live owners a and b the file holds both a pair row (a,b) and a pair row
\* (b,a).
C22_RegistryExportConsistency ==
  file.status = "written" =>
    /\ \A i \in 1 .. Len(file.lines) :
         file.lines[i][4] # 0 => file.lines[i][4] = 1
    /\ \A a \in DOMAIN kind, b \in DOMAIN kind :
         (Live(a) /\ Live(b) /\ a # b) =>
           ~(PairRowsOf(a, b) # {} /\ PairRowsOf(b, a) # {})

\* the owner of the neighbor the DendriticDetector call of tip t returned
FoundOwner(t) ==
  IF behaviors[t][1].found \in RepeatTips THEN mother[behaviors[t][1].found]
  ELSE Null

\* the run has finished and the file is written; two tips of owner a both
\* found a neighbor of owner b and a tip of b found a neighbor of a: the pair
\* was attempted twice in one direction and once in the other, and the file
\* holds one row for it, with count 1
C22_Witness ==
  /\ phase = "finished"
  /\ file.status = "written"
  /\ \A t \in RepeatTips : behaviors[t][1].attempts = 1
  /\ \E a \in RepeatOwners, b \in RepeatOwners :
       /\ a # b
       /\ \E t1 \in RepeatTips, t2 \in RepeatTips, u \in RepeatTips :
            /\ t1 # t2
            /\ mother[t1] = a /\ mother[t2] = a /\ mother[u] = b
            /\ FoundOwner(t1) = b /\ FoundOwner(t2) = b /\ FoundOwner(u) = a
       /\ Cardinality(PairRowsOf(a, b) \cup PairRowsOf(b, a)) = 1
       /\ \A i \in PairRowsOf(a, b) \cup PairRowsOf(b, a) : file.lines[i][4] = 1

============================================================================
